---------------------------- MODULE Spec2Model ----------------------------
(***************************************************************************)
(* Order formatting (formatOrderDocument, formatOrderDocuments,            *)
(* formatStoreOrderDocument) and cart page hydration of the storefront.    *)
(*                                                                         *)
(* JavaScript values are records tagged by field t: "null", "oid" (a       *)
(* mongoose ObjectId, an object without document fields) and "doc" (a      *)
(* plain or populated document).  A field that is absent from a document   *)
(* is absent from the record's DOMAIN.  Function calls return Ok(value) or *)
(* Throw(error); an Error is the record of the parts of its message.       *)
(***************************************************************************)
EXTENDS Integers, Sequences, FiniteSets, TLC

VARIABLES
    pc,          \* position of the request being served
    rawOrder,    \* argument of formatOrderDocument / formatStoreOrderDocument
    storeId,     \* argument of formatStoreOrderDocument
    result,      \* what the single-order call returned or threw
    rawOrders,   \* argument of formatOrderDocuments
    results,     \* what formatOrderDocuments returned or threw
    console,     \* lines written with console.error / console.warn
    cookieUser,  \* CartPage: the user getUserFromCookie resolved to
    cartData,    \* CartPage: what cart.getByUserId resolved to
    products,    \* CartPage: what cart.getManyByIds resolved to
    hydratedCartItems,  \* CartPage: the merged cart items
    orderSummary,       \* CartPage: the totals handed to the client
    page,        \* CartPage: what the component rendered
    carts,       \* the carts collection: the stored cart documents
    call,        \* cart model: the last completed call and what it returned
    procs,       \* cart model: the addItemToCart calls in flight
    account,     \* verification route: the stored user document, or null
    clock,       \* verification route: what Date.now() returns
    reqs         \* verification route: the POST requests and their position

orderVars == <<rawOrder, storeId, result, rawOrders, results>>

cartVars == <<cookieUser, cartData, products, hydratedCartItems, orderSummary, page>>

storeVars == <<carts, call, procs>>

verifyVars == <<account, clock, reqs>>

vars == <<pc, console, orderVars, cartVars, storeVars, verifyVars>>

\* Bounds of the explored inputs.
MaxSubOrders == 2
MaxItems == 2
MaxOrders == 3
MaxCartItems == 2

Unset == [t |-> "unset"]

\* No cart page is being rendered.
CartIdle ==
    /\ cookieUser = Unset
    /\ cartData = Unset
    /\ products = Unset
    /\ hydratedCartItems = Unset
    /\ orderSummary = Unset
    /\ page = Unset

\* No verification request is being served.
VerifyIdle ==
    /\ account = Unset
    /\ clock = 0
    /\ reqs = Unset

\* No call of the cart model is being made.
StoreIdle ==
    /\ carts = Unset
    /\ call = Unset
    /\ procs = Unset

---------------------------------------------------------------------------
\* JavaScript values

Null == [t |-> "null"]

\* A mongoose ObjectId with hex string h.  mongoose defines an `_id` getter on
\* ObjectId that returns the ObjectId itself.
ObjectId(h) == [t |-> "oid", hex |-> h]

\* value.toString(): an ObjectId gives its hex string, a plain object gives
\* "[object Object]".
ToStr(v) == IF v.t = "oid" THEN v.hex ELSE "[object Object]"

\* value?._id?.toString(); NoString stands for undefined.
NoString == "undefined"

IdStringOfDocument(v) ==
    IF v.t = "doc" /\ "_id" \in DOMAIN v THEN ToStr(v._id) ELSE NoString

IdString(v) ==
    IF v.t = "null" THEN NoString
    ELSE IF v.t = "oid" THEN ToStr(v)
    ELSE IF "_id" \in DOMAIN v THEN ToStr(v._id)
    ELSE NoString

Undefined == [t |-> "undefined"]

Truthy(v) == v.t \notin {"null", "undefined"}

TypeOf(v) == IF v.t \in {"null", "oid", "doc"} THEN "object" ELSE v.t

Ok(v) == [ok |-> TRUE, val |-> v]

Throw(e) == [ok |-> FALSE, err |-> e]

Min(S) == CHOOSE i \in S : \A k \in S : i <= k

Max(S) == CHOOSE i \in S : \A k \in S : i >= k

\* array.map(callback) when rs[i] is the outcome of the callback on element
\* i: elements are visited in index order, so the first throwing callback
\* ends the map with its error; otherwise the array of the returned values.
ArrayMapLast(rs) ==
    LET bad == {i \in DOMAIN rs : ~rs[i].ok}
    IN  IF bad # {} THEN Throw(rs[Max(bad)].err)
        ELSE Ok([i \in DOMAIN rs |-> rs[i].val])

ArrayMapSkip(rs) ==
    LET good == {i \in DOMAIN rs : rs[i].ok}
        RECURSIVE Kept(_)
        Kept(n) == IF n = 0 THEN <<>>
                   ELSE IF n \in good THEN Append(Kept(n - 1), rs[n].val)
                   ELSE Kept(n - 1)
    IN  Ok(Kept(Len(rs)))

ArrayMap(rs) ==
    LET bad == {i \in DOMAIN rs : ~rs[i].ok}
    IN  IF bad # {} THEN Throw(rs[Min(bad)].err)
        ELSE Ok([i \in DOMAIN rs |-> rs[i].val])

---------------------------------------------------------------------------
\* Type guards

isPopulatedStore(store) ==
    /\ Truthy(store)
    /\ TypeOf(store) = "object"
    /\ "name" \in DOMAIN store
    /\ "storeEmail" \in DOMAIN store

isPopulatedProduct(product) ==
    /\ Truthy(product)
    /\ TypeOf(product) = "object"
    /\ "name" \in DOMAIN product
    /\ "price" \in DOMAIN product

isPopulatedUserNoEmail(user) ==
    /\ Truthy(user)
    /\ TypeOf(user) = "object"
    /\ "firstName" \in DOMAIN user
    /\ "lastName" \in DOMAIN user

isPopulatedUser(user) ==
    /\ Truthy(user)
    /\ TypeOf(user) = "object"
    /\ "firstName" \in DOMAIN user
    /\ "lastName" \in DOMAIN user
    /\ "email" \in DOMAIN user

---------------------------------------------------------------------------
\* Error messages (template literals), kept as the message's parts.  Indexes
\* are the zero-based indexes the code interpolates.

EmptyOrderMessage(orderId) ==
    [msg |-> "Order ${_id} has no sub-orders", order |-> ToStr(orderId)]

StoreMessage(index, orderId) ==
    [msg |-> "Sub-order ${index} in order ${_id} has unpopulated store",
     sub |-> index, order |-> ToStr(orderId)]

ProductMessage(productIndex, index, orderId) ==
    [msg |-> "Product ${productIndex} in sub-order ${index} of order ${_id} has unpopulated Product",
     item |-> productIndex, sub |-> index, order |-> ToStr(orderId)]

NoSubOrdersForStoreMessage(orderId, sid) ==
    [msg |-> "Order ${_id} has no sub-orders for store ${storeId}",
     order |-> ToStr(orderId), store |-> sid]

UserMessage(orderId) ==
    [msg |-> "Order ${_id} has unpopulated user", order |-> ToStr(orderId)]

BatchMessage(orderId, error) ==
    [msg |-> "Order formatting failed for order ${_id}: ${error}",
     order |-> ToStr(orderId), cause |-> error]

TypeErrorMessage ==
    [msg |-> "TypeError: Cannot read properties of undefined (reading 'filter')"]

---------------------------------------------------------------------------
\* formatOrderDocument

\* The callback of subOrder.products.map on line item productItem; indexes
\* are zero-based as in the code.
FormatProductItem(productItem, productIndex, index, orderId) ==
    IF ~isPopulatedProduct(productItem.Product)
    THEN Throw(ProductMessage(productIndex, index, orderId))
    ELSE Ok([_id |-> ToStr(productItem._id),
             Product |-> [_id |-> productItem.Product._id,
                          name |-> productItem.Product.name,
                          images |-> productItem.Product.images,
                          price |-> productItem.Product.price,
                          productType |-> productItem.Product.productType,
                          storeID |-> productItem.Product.storeID],
             store |-> ToStr(productItem.store),
             quantity |-> productItem.quantity,
             price |-> productItem.price])

\* The callback of rawOrder.subOrders.map.  deliveryStatus stands for the
\* fields copied unchanged (shippingMethod, deliveryDate, escrow, ...), as
\* paymentStatus does for those of the order.
FormatSubOrder(subOrder, index, orderId) ==
    IF ~isPopulatedStore(subOrder.store)
    THEN Throw(StoreMessage(index, orderId))
    ELSE LET formattedProducts ==
                 ArrayMap([j \in DOMAIN subOrder.products |->
                     FormatProductItem(subOrder.products[j], j - 1, index, orderId)])
         IN  IF ~formattedProducts.ok THEN formattedProducts
             ELSE Ok([_id |-> ToStr(subOrder._id),
                      store |-> [_id |-> subOrder.store._id,
                                 name |-> subOrder.store.name,
                                 storeEmail |-> subOrder.store.storeEmail,
                                 logoUrl |-> subOrder.store.logoUrl],
                      products |-> formattedProducts.val,
                      totalAmount |-> subOrder.totalAmount,
                      deliveryStatus |-> subOrder.deliveryStatus])

SumTotals(subs) ==
    LET RECURSIVE Sum(_)
        Sum(n) == IF n = 0 THEN 0 ELSE Sum(n - 1) + subs[n].totalAmount
    IN  Sum(Len(subs))

formatOrderDocumentRecomputed(order) ==
    IF "subOrders" \notin DOMAIN order \/ Len(order.subOrders) = 0
    THEN Throw(EmptyOrderMessage(order._id))
    ELSE LET formattedSubOrders ==
                 ArrayMap([i \in DOMAIN order.subOrders |->
                     FormatSubOrder(order.subOrders[i], i - 1, order._id)])
         IN  IF ~formattedSubOrders.ok THEN formattedSubOrders
             ELSE Ok([_id |-> ToStr(order._id),
                      user |-> ToStr(order.user),
                      stores |-> [k \in DOMAIN order.stores |-> ToStr(order.stores[k])],
                      totalAmount |-> SumTotals(formattedSubOrders.val),
                      paymentStatus |-> order.paymentStatus,
                      subOrders |-> formattedSubOrders.val])

formatOrderDocumentUnchecked(order) ==
    IF "subOrders" \notin DOMAIN order
    THEN Throw(TypeErrorMessage)
    ELSE LET formattedSubOrders ==
                 ArrayMap([i \in DOMAIN order.subOrders |->
                     FormatSubOrder(order.subOrders[i], i - 1, order._id)])
         IN  IF ~formattedSubOrders.ok THEN formattedSubOrders
             ELSE Ok([_id |-> ToStr(order._id),
                      user |-> ToStr(order.user),
                      stores |-> [k \in DOMAIN order.stores |-> ToStr(order.stores[k])],
                      totalAmount |-> order.totalAmount,
                      paymentStatus |-> order.paymentStatus,
                      subOrders |-> formattedSubOrders.val])

formatOrderDocument(order) ==
    IF "subOrders" \notin DOMAIN order \/ Len(order.subOrders) = 0
    THEN Throw(EmptyOrderMessage(order._id))
    ELSE LET formattedSubOrders ==
                 ArrayMap([i \in DOMAIN order.subOrders |->
                     FormatSubOrder(order.subOrders[i], i - 1, order._id)])
         IN  IF ~formattedSubOrders.ok THEN formattedSubOrders
             ELSE Ok([_id |-> ToStr(order._id),
                      user |-> ToStr(order.user),
                      stores |-> [k \in DOMAIN order.stores |-> ToStr(order.stores[k])],
                      totalAmount |-> order.totalAmount,
                      paymentStatus |-> order.paymentStatus,
                      subOrders |-> formattedSubOrders.val])

---------------------------------------------------------------------------
\* formatOrderDocuments

\* The line console.error writes in the catch block.
FailedLine(index, error) ==
    [level |-> "error", msg |-> "Failed to format order at index ${index}:",
     index |-> index, error |-> error]

\* The callback of rawOrders.map: the try/catch around formatOrderDocument.
FormatOrderAt(order) ==
    LET r == formatOrderDocument(order)
    IN  IF r.ok THEN r ELSE Throw(BatchMessage(order._id, r.err))

\* Returns what the call returns or throws (out) and the lines it logs.
formatOrderDocumentsBestEffort(orders) ==
    LET inner == [i \in DOMAIN orders |-> formatOrderDocument(orders[i])]
    IN  [out |-> ArrayMapSkip(inner), log |-> <<>>]

formatOrderDocuments(orders) ==
    LET inner == [i \in DOMAIN orders |-> formatOrderDocument(orders[i])]
        bad == {i \in DOMAIN orders : ~inner[i].ok}
    IN  [out |-> ArrayMap([i \in DOMAIN orders |-> FormatOrderAt(orders[i])]),
         log |-> IF bad = {} THEN <<>>
                 ELSE <<FailedLine(Min(bad) - 1, inner[Min(bad)].err)>>]

---------------------------------------------------------------------------
\* formatStoreOrderDocument

\* object[field]: undefined (NoString) when the field is absent.
Get(object, field) == IF field \in DOMAIN object THEN object[field] ELSE NoString

\* rawOrder.subOrders.filter(subOrder => subOrder.store?._id?.toString() === storeId)
RECURSIVE FilterByStore(_, _)
FilterByStore(subOrders, sid) ==
    IF subOrders = <<>> THEN <<>>
    ELSE IF IdString(Head(subOrders).store) = sid
         THEN <<Head(subOrders)>> \o FilterByStore(Tail(subOrders), sid)
         ELSE FilterByStore(Tail(subOrders), sid)

\* The callback of storeSubOrders.map; index is the index in the filtered list.
FormatStoreSubOrder(subOrder, index, orderId) ==
    IF ~isPopulatedStore(subOrder.store)
    THEN Throw(StoreMessage(index, orderId))
    ELSE LET formattedProducts ==
                 ArrayMap([j \in DOMAIN subOrder.products |->
                     FormatProductItem(subOrder.products[j], j - 1, index, orderId)])
         IN  IF ~formattedProducts.ok THEN formattedProducts
             ELSE Ok([_id |-> IF "_id" \in DOMAIN subOrder THEN ToStr(subOrder._id) ELSE "",
                      store |-> [_id |-> subOrder.store._id,
                                 name |-> subOrder.store.name,
                                 storeEmail |-> subOrder.store.storeEmail,
                                 logoUrl |-> subOrder.store.logoUrl],
                      products |-> formattedProducts.val,
                      totalAmount |-> subOrder.totalAmount,
                      deliveryStatus |-> subOrder.deliveryStatus])

\* rawOrder.user.phoneNumber || "unknown"
PhoneOrUnknown(user) ==
    IF Get(user, "phoneNumber") \in {NoString, ""} THEN "unknown"
    ELSE user.phoneNumber

\* formattedSubOrders.reduce((sum, s) => sum + s.totalAmount, 0)
StoreTotalStored(order, formattedSubOrders) == order.totalAmount

StoreTotal(order, formattedSubOrders) == SumTotals(formattedSubOrders)

formatStoreOrderDocument(order, sid) ==
    IF "subOrders" \notin DOMAIN order THEN Throw(TypeErrorMessage)
    ELSE LET storeSubOrders == FilterByStore(order.subOrders, sid)
         IN  IF Len(storeSubOrders) = 0
             THEN Throw(NoSubOrdersForStoreMessage(order._id, sid))
             ELSE LET formattedSubOrders ==
                          ArrayMap([i \in DOMAIN storeSubOrders |->
                              FormatStoreSubOrder(storeSubOrders[i], i - 1, order._id)])
                  IN  IF ~formattedSubOrders.ok THEN formattedSubOrders
                      ELSE IF ~isPopulatedUser(order.user)
                      THEN Throw(UserMessage(order._id))
                      ELSE Ok([_id |-> ToStr(order._id),
                               user |-> [_id |-> ToStr(order.user._id),
                                         firstName |-> Get(order.user, "firstName"),
                                         lastName |-> Get(order.user, "lastName"),
                                         email |-> Get(order.user, "email"),
                                         phoneNumber |-> PhoneOrUnknown(order.user)],
                               stores |-> <<sid>>,
                               totalAmount |-> StoreTotal(order, formattedSubOrders.val),
                               paymentStatus |-> order.paymentStatus,
                               subOrders |-> formattedSubOrders.val])

---------------------------------------------------------------------------
\* Raw documents handed to the formatters

StoreIds == {"A", "B"}

PopulatedStore(id) ==
    [t |-> "doc", _id |-> ObjectId(id), name |-> "Store " \o id,
     storeEmail |-> id \o "@stores.example", logoUrl |-> "/logo.png"]

\* A sub-order's store: null (populate found no store), a bare ObjectId, or
\* the populated store.
StoreVals == {Null, ObjectId("A"), PopulatedStore("A"), PopulatedStore("B")}

PopulatedProduct ==
    [t |-> "doc", _id |-> ObjectId("p1"), name |-> "Shirt", images |-> <<"/p1.png">>,
     price |-> 1000, productType |-> "Product", storeID |-> ObjectId("A")]

ProductVals == {ObjectId("p1"), PopulatedProduct}

Amounts == {3000, 7000}

OrderAmounts == {10000, 12000}

PopulatedUser(phone) ==
    IF phone = NoString
    THEN [t |-> "doc", _id |-> ObjectId("u1"), firstName |-> "Ada",
          lastName |-> "Obi", email |-> "ada@example.com"]
    ELSE [t |-> "doc", _id |-> ObjectId("u1"), firstName |-> "Ada",
          lastName |-> "Obi", email |-> "ada@example.com", phoneNumber |-> phone]

\* A user document populated with a selection that leaves out email.
PartialUser ==
    [t |-> "doc", _id |-> ObjectId("u1"), firstName |-> "Ada", lastName |-> "Obi"]

Phone == "08012345678"

\* Lists of at most n product values.
ItemSeqs(n) == UNION {[1..k -> ProductVals] : k \in 0..n}

\* The line items of k sub-orders, at most n line items in all: element i is
\* the list of the Product values of sub-order i.
RECURSIVE ProductLists(_, _)
ProductLists(k, n) ==
    IF k = 0 THEN {<<>>}
    ELSE UNION {{<<ps>> \o rest : rest \in ProductLists(k - 1, n - Len(ps))} :
                    ps \in ItemSeqs(n)}

\* The stored sub-orders of order o, given each sub-order's store, total and
\* Product values: ids are given by position.
RawSubOrders(o, stores, totals, items) ==
    [i \in DOMAIN stores |->
        [_id |-> ObjectId(o \o "s" \o ToString(i)),
         store |-> stores[i],
         totalAmount |-> totals[i],
         deliveryStatus |-> "pending",
         products |->
            [j \in DOMAIN items[i] |->
                [_id |-> ObjectId(o \o "s" \o ToString(i) \o "i" \o ToString(j)),
                 Product |-> items[i][j],
                 store |-> ObjectId("A"),
                 quantity |-> 1,
                 price |-> 1000]]]]

\* An order read without its subOrders field.
RawOrderWithout(o, user, amount) ==
    [_id |-> ObjectId(o), user |-> user,
     stores |-> <<ObjectId("A"), ObjectId("B")>>,
     totalAmount |-> amount, paymentStatus |-> "paid"]

RawOrder(o, user, amount, subOrders) ==
    [_id |-> ObjectId(o), user |-> user,
     stores |-> <<ObjectId("A"), ObjectId("B")>>,
     totalAmount |-> amount, paymentStatus |-> "paid",
     subOrders |-> subOrders]

\* order is an order of user with total amount: one without subOrders, or
\* one with at most MaxSubOrders sub-orders and MaxItems line items.
IsRawOrderDocument(order, user, amount) ==
    \/ order = RawOrderWithout("o1", user, amount)
    \/ \E k \in 0..MaxSubOrders :
         \E stores \in [1..k -> StoreVals], totals \in [1..k -> Amounts],
            items \in ProductLists(k, MaxItems) :
              order = RawOrder("o1", user, amount, RawSubOrders("o1", stores, totals, items))

\* The orders of a batch: order o without subOrders, with none, or with one
\* sub-order of at most one line item.
BatchOrders(o) ==
    {RawOrderWithout(o, ObjectId("u1"), 10000)}
    \cup
    {RawOrder(o, ObjectId("u1"), 10000, RawSubOrders(o, stores, <<3000>>, items)) :
        stores \in [1..1 -> StoreVals], items \in ProductLists(1, 1)}
    \cup
    {RawOrder(o, ObjectId("u1"), 10000, <<>>)}

HasSubOrders(order) == "subOrders" \in DOMAIN order

---------------------------------------------------------------------------
\* Spec: one call of formatOrderDocument

Init ==
    /\ pc = "start"
    /\ \E user \in {ObjectId("u1"), PopulatedUser(Phone)}, amount \in OrderAmounts :
          IsRawOrderDocument(rawOrder, user, amount)
    /\ storeId = NoString
    /\ result = Unset
    /\ rawOrders = <<>>
    /\ results = Unset
    /\ console = <<>>
    /\ CartIdle
    /\ VerifyIdle
    /\ StoreIdle

FormatOrder ==
    /\ pc = "start"
    /\ result' = formatOrderDocument(rawOrder)
    /\ pc' = "done"
    /\ UNCHANGED <<verifyVars, rawOrder, storeId, rawOrders, results, console, cartVars, storeVars>>

Next == FormatOrder

Spec == Init /\ [][Next]_vars

---------------------------------------------------------------------------
\* What the claims call populated, bare and the kinds of error

StorePopulated(store) == store \in {PopulatedStore(id) : id \in StoreIds}

StoreBare(store) == store.t = "oid"

ProductPopulated(product) == product = PopulatedProduct

EmptyOrderError(e) == e.msg = "Order ${_id} has no sub-orders"

UnpopulatedStoreError(e) ==
    e.msg = "Sub-order ${index} in order ${_id} has unpopulated store"

UnpopulatedProductError(e) ==
    e.msg = "Product ${productIndex} in sub-order ${index} of order ${_id} has unpopulated Product"

NoSubOrdersForStoreError(e) ==
    e.msg = "Order ${_id} has no sub-orders for store ${storeId}"

UnpopulatedUserError(e) == e.msg = "Order ${_id} has unpopulated user"

\* The sub-orders of an order; none when the field is missing.
SubOrdersOf(order) == IF HasSubOrders(order) THEN order.subOrders ELSE <<>>

AllStoresPopulated(order) ==
    \A i \in DOMAIN SubOrdersOf(order) : StorePopulated(SubOrdersOf(order)[i].store)

\* The positions <<i, j>> (one-based) of the line items whose Product is not
\* populated.
UnpopulatedItems(order) ==
    {<<i, j>> \in (1..MaxSubOrders + 1) \X (1..MaxItems + 1) :
        /\ i \in DOMAIN SubOrdersOf(order)
        /\ j \in DOMAIN SubOrdersOf(order)[i].products
        /\ ~ProductPopulated(SubOrdersOf(order)[i].products[j].Product)}

AllProductsPopulated(order) == UnpopulatedItems(order) = {}

Before(a, b) == a[1] < b[1] \/ (a[1] = b[1] /\ a[2] < b[2])

FirstUnpopulatedItem(order) ==
    CHOOSE a \in UnpopulatedItems(order) :
        \A b \in UnpopulatedItems(order) : a = b \/ Before(a, b)

WellFormed(order) ==
    /\ Len(SubOrdersOf(order)) >= 1
    /\ AllStoresPopulated(order)
    /\ AllProductsPopulated(order)

---------------------------------------------------------------------------
\* Claims about formatOrderDocument (checked under Spec)

\* C1: for an order with at least one sub-order whose stores and products are
\* all populated, formatOrderDocument returns, and the returned totalAmount is
\* rawOrder.totalAmount, whatever the sub-orders' totals sum to.
C1_TotalAsStored ==
    (pc = "done" /\ WellFormed(rawOrder)) =>
        (result.ok /\ result.val.totalAmount = rawOrder.totalAmount)

C1_Witness ==
    /\ pc = "done"
    /\ WellFormed(rawOrder)
    /\ result.ok
    /\ SumTotals(rawOrder.subOrders) # rawOrder.totalAmount

\* C2: an order whose subOrders list is missing or empty makes
\* formatOrderDocument throw the empty-order error naming the order id.
C2_EmptyOrderFails ==
    (pc = "done" /\ Len(SubOrdersOf(rawOrder)) = 0) =>
        (/\ ~result.ok
         /\ EmptyOrderError(result.err)
         /\ result.err.order = rawOrder._id.hex)

C2_Witness ==
    /\ pc = "done"
    /\ ~HasSubOrders(rawOrder)
    /\ rawOrder.user = PopulatedUser(Phone)
    /\ ~result.ok

\* The position of the first sub-order whose store is not populated.
FirstUnpopulatedStore(order) ==
    Min({i \in DOMAIN SubOrdersOf(order) : ~StorePopulated(SubOrdersOf(order)[i].store)})

HasBareStore(order) ==
    \E i \in DOMAIN SubOrdersOf(order) : StoreBare(SubOrdersOf(order)[i].store)

\* An unpopulated product sits in a sub-order before the first sub-order
\* whose store is not populated.
EarlierUnpopulatedProduct(order) ==
    \E a \in UnpopulatedItems(order) : a[1] < FirstUnpopulatedStore(order)

\* C3 as stated: a bare-id store in any sub-order makes formatOrderDocument
\* throw UnpopulatedStoreError, whatever the other sub-orders hold.
C3_Original ==
    (pc = "done" /\ HasBareStore(rawOrder)) =>
        (~result.ok /\ UnpopulatedStoreError(result.err))

\* C3 amended: a bare-id store in any sub-order makes formatOrderDocument
\* throw; the error is UnpopulatedStoreError for the first sub-order whose
\* store is not populated, unless an earlier sub-order holds an unpopulated
\* product, and then it is UnpopulatedProductError.
C3_BareStoreFails ==
    (pc = "done" /\ HasBareStore(rawOrder)) =>
        /\ ~result.ok
        /\ IF EarlierUnpopulatedProduct(rawOrder)
           THEN UnpopulatedProductError(result.err)
           ELSE /\ UnpopulatedStoreError(result.err)
                /\ result.err.sub = FirstUnpopulatedStore(rawOrder) - 1

C3_Witness ==
    /\ pc = "done"
    /\ HasBareStore(rawOrder)
    /\ Len(rawOrder.subOrders) >= 2
    /\ StoreBare(rawOrder.subOrders[2].store)
    /\ StorePopulated(rawOrder.subOrders[1].store)
    /\ ~EarlierUnpopulatedProduct(rawOrder)
    /\ UnpopulatedItems(rawOrder) # {}
    /\ ~result.ok
    /\ UnpopulatedStoreError(result.err)

\* C4: with every store populated and some Product unpopulated,
\* formatOrderDocument throws UnpopulatedProductError carrying the zero-based
\* sub-order index and item index of the first unpopulated line item.
C4_FirstUnpopulatedProduct ==
    (pc = "done" /\ AllStoresPopulated(rawOrder) /\ ~AllProductsPopulated(rawOrder)) =>
        (/\ ~result.ok
         /\ UnpopulatedProductError(result.err)
         /\ result.err.sub = FirstUnpopulatedItem(rawOrder)[1] - 1
         /\ result.err.item = FirstUnpopulatedItem(rawOrder)[2] - 1)

C4_Witness ==
    /\ pc = "done"
    /\ AllStoresPopulated(rawOrder)
    /\ Cardinality(UnpopulatedItems(rawOrder)) >= 2
    /\ FirstUnpopulatedItem(rawOrder) = <<1, 1>>
    /\ <<2, 1>> \in UnpopulatedItems(rawOrder)
    /\ ~result.ok
    /\ UnpopulatedProductError(result.err)

\* C5: formatOrderDocument throws, or returns every sub-order and every line
\* item of the input, in the input's order.
C5_AllOrNothing ==
    (pc = "done" /\ result.ok) =>
        /\ HasSubOrders(rawOrder)
        /\ Len(result.val.subOrders) = Len(rawOrder.subOrders)
        /\ \A i \in DOMAIN rawOrder.subOrders :
            /\ result.val.subOrders[i]._id = rawOrder.subOrders[i]._id.hex
            /\ Len(result.val.subOrders[i].products) = Len(rawOrder.subOrders[i].products)
            /\ \A j \in DOMAIN rawOrder.subOrders[i].products :
                result.val.subOrders[i].products[j]._id
                    = rawOrder.subOrders[i].products[j]._id.hex

C5_Witness ==
    /\ pc = "done"
    /\ result.ok
    /\ Len(result.val.subOrders) = 2
    /\ Len(result.val.subOrders[1].products) = 1
    /\ Len(result.val.subOrders[2].products) = 1

---------------------------------------------------------------------------
\* StoreSpec: one call of formatStoreOrderDocument

UserVals == {ObjectId("u1"), PartialUser, PopulatedUser(Phone), PopulatedUser(NoString)}

StoreInit ==
    /\ pc = "start"
    /\ \E user \in UserVals : IsRawOrderDocument(rawOrder, user, 10000)
    /\ storeId = NoString
    /\ result = Unset
    /\ rawOrders = <<>>
    /\ results = Unset
    /\ console = <<>>
    /\ CartIdle
    /\ VerifyIdle
    /\ StoreIdle

FormatStoreOrder ==
    /\ pc = "start"
    /\ \E sid \in StoreIds :
        /\ storeId' = sid
        /\ result' = formatStoreOrderDocument(rawOrder, sid)
    /\ pc' = "done"
    /\ UNCHANGED <<verifyVars, rawOrder, rawOrders, results, console, cartVars, storeVars>>

StoreNext == FormatStoreOrder

StoreSpec == StoreInit /\ [][StoreNext]_vars

---------------------------------------------------------------------------
\* Claims about formatStoreOrderDocument (checked under StoreSpec)

\* The id of the store of a sub-order, as the claims speak of it.
StoreIdOf(store) ==
    IF store.t = "null" THEN NoString
    ELSE IF store.t = "oid" THEN store.hex
    ELSE store._id.hex

\* The positions of the sub-orders of the order whose store id is sid.
MatchingSubOrders(order, sid) ==
    {i \in DOMAIN SubOrdersOf(order) : StoreIdOf(SubOrdersOf(order)[i].store) = sid}

RECURSIVE SumOver(_, _)
SumOver(subOrders, S) ==
    IF S = {} THEN 0
    ELSE LET i == CHOOSE i \in S : TRUE
         IN  subOrders[i].totalAmount + SumOver(subOrders, S \ {i})

\* The number of matching sub-orders at positions up to i.
Rank(order, sid, i) == Cardinality({k \in MatchingSubOrders(order, sid) : k <= i})

UserPopulated(user) == user \in {PopulatedUser(Phone), PopulatedUser(NoString)}

\* C6: when formatStoreOrderDocument returns, totalAmount is the sum of the
\* totals of the sub-orders whose store id is storeId, not the stored total.
C6_StoreTotal ==
    (pc = "done" /\ result.ok) =>
        result.val.totalAmount
            = SumOver(rawOrder.subOrders, MatchingSubOrders(rawOrder, storeId))

C6_Witness ==
    /\ pc = "done"
    /\ result.ok
    /\ Len(rawOrder.subOrders) = 2
    /\ storeId = "A"
    /\ StoreIdOf(rawOrder.subOrders[1].store) = "A"
    /\ StoreIdOf(rawOrder.subOrders[2].store) = "B"
    /\ rawOrder.subOrders[1].totalAmount = 3000
    /\ rawOrder.subOrders[2].totalAmount = 7000
    /\ rawOrder.totalAmount = 10000
    /\ result.val.totalAmount = 3000

\* C7: when no sub-order of the order has the store id storeId,
\* formatStoreOrderDocument throws NoSubOrdersForStoreError whatever the user
\* and the products are; and when it returns, the sub-orders returned are the
\* sub-orders whose store id is storeId, in their order, and stores is
\* [storeId].
C7_Original ==
    (pc = "done") =>
        /\ (MatchingSubOrders(rawOrder, storeId) = {}) =>
                (~result.ok /\ NoSubOrdersForStoreError(result.err))
        /\ result.ok =>
            /\ result.val.stores = <<storeId>>
            /\ Len(result.val.subOrders)
                   = Cardinality(MatchingSubOrders(rawOrder, storeId))
            /\ \A i \in MatchingSubOrders(rawOrder, storeId) :
                   result.val.subOrders[Rank(rawOrder, storeId, i)]._id
                       = rawOrder.subOrders[i]._id.hex

\* C8 as stated: an order whose user is not populated makes
\* formatStoreOrderDocument throw UnpopulatedUserError.
C8_Original ==
    (pc = "done" /\ ~UserPopulated(rawOrder.user)) =>
        (~result.ok /\ UnpopulatedUserError(result.err))

\* The sub-orders of the store all have a populated store and populated
\* products.
MatchingPopulated(order, sid) ==
    \A i \in MatchingSubOrders(order, sid) :
        /\ StorePopulated(order.subOrders[i].store)
        /\ \A j \in DOMAIN order.subOrders[i].products :
              ProductPopulated(order.subOrders[i].products[j].Product)

\* C8 amended: formatStoreOrderDocument returns nothing for an order whose
\* user is not populated.  It throws the TypeError of the filter when the
\* order has no sub-order list, NoSubOrdersForStoreError when no sub-order is
\* of the store, UnpopulatedStoreError or UnpopulatedProductError when a
\* sub-order of the store has an unpopulated store or product, and
\* UnpopulatedUserError otherwise.  When it returns, the user summary is the
\* user's id, names and email, and the phone number or "unknown".
C8_UserSummary ==
    (pc = "done") =>
        /\ ~UserPopulated(rawOrder.user) =>
            /\ ~result.ok
            /\ IF ~HasSubOrders(rawOrder)
               THEN result.err = TypeErrorMessage
               ELSE IF MatchingSubOrders(rawOrder, storeId) = {}
               THEN NoSubOrdersForStoreError(result.err)
               ELSE IF MatchingPopulated(rawOrder, storeId)
               THEN UnpopulatedUserError(result.err)
               ELSE \/ UnpopulatedStoreError(result.err)
                    \/ UnpopulatedProductError(result.err)
        /\ result.ok =>
            /\ result.val.user._id = rawOrder.user._id.hex
            /\ result.val.user.firstName = rawOrder.user.firstName
            /\ result.val.user.lastName = rawOrder.user.lastName
            /\ result.val.user.email = rawOrder.user.email
            /\ result.val.user.phoneNumber
                 = IF "phoneNumber" \in DOMAIN rawOrder.user
                   THEN rawOrder.user.phoneNumber ELSE "unknown"

C8_Witness ==
    /\ pc = "done"
    /\ rawOrder.user = PartialUser
    /\ MatchingSubOrders(rawOrder, storeId) # {}
    /\ ~result.ok
    /\ UnpopulatedUserError(result.err)

\* C16 as stated: an order with a bare-id store in any sub-order makes
\* formatStoreOrderDocument fail, also when other sub-orders are populated and
\* match the requested store.
C16_Original ==
    (pc = "done" /\ HasBareStore(rawOrder)) => ~result.ok

\* C16 amended: formatStoreOrderDocument fails whenever a sub-order whose
\* store id is the requested store id has a bare-id store, and when it
\* returns, every sub-order of the requested store has a populated store; a
\* bare-id store of another store is filtered out before the check.
C16_BareMatchingStoreFails ==
    (pc = "done" /\ HasSubOrders(rawOrder)) =>
        /\ (\E i \in MatchingSubOrders(rawOrder, storeId) :
                StoreBare(rawOrder.subOrders[i].store)) => ~result.ok
        /\ result.ok =>
              \A i \in MatchingSubOrders(rawOrder, storeId) :
                  StorePopulated(rawOrder.subOrders[i].store)

\* A populated and a bare sub-order of the requested store.
C16_Witness ==
    /\ pc = "done"
    /\ HasSubOrders(rawOrder)
    /\ \E i, k \in MatchingSubOrders(rawOrder, storeId) :
          /\ StorePopulated(rawOrder.subOrders[i].store)
          /\ StoreBare(rawOrder.subOrders[k].store)
    /\ UserPopulated(rawOrder.user)
    /\ AllProductsPopulated(rawOrder)
    /\ ~result.ok
    /\ UnpopulatedStoreError(result.err)

\* The position, in the order's own list, of the first sub-order of the
\* requested store that has an unpopulated store or an unpopulated Product.
FailingSubOrder ==
    Min({i \in MatchingSubOrders(rawOrder, storeId) :
            \/ ~StorePopulated(rawOrder.subOrders[i].store)
            \/ \E a \in UnpopulatedItems(rawOrder) : a[1] = i})

\* C23: the sub-order index of an unpopulated-store or unpopulated-product
\* error of formatStoreOrderDocument is the (zero-based) index of the failing
\* sub-order in the order's own subOrders list.
C23_Original ==
    (/\ pc = "done"
     /\ HasSubOrders(rawOrder)
     /\ ~result.ok
     /\ UnpopulatedStoreError(result.err) \/ UnpopulatedProductError(result.err)) =>
        result.err.sub = FailingSubOrder - 1

---------------------------------------------------------------------------
\* BatchSpec: one call of formatOrderDocuments

BatchInit ==
    /\ pc = "start"
    /\ rawOrder = Unset
    /\ storeId = NoString
    /\ result = Unset
    /\ \E n \in 0..MaxOrders :
         \E pick \in [1..n -> BatchOrders("o")] :
            rawOrders = [i \in 1..n |->
                            [pick[i] EXCEPT !._id = ObjectId("o" \o ToString(i))]]
    /\ results = Unset
    /\ console = <<>>
    /\ CartIdle
    /\ VerifyIdle
    /\ StoreIdle

FormatOrders ==
    /\ pc = "start"
    /\ results' = formatOrderDocuments(rawOrders).out
    /\ console' = console \o formatOrderDocuments(rawOrders).log
    /\ pc' = "done"
    /\ UNCHANGED <<verifyVars, rawOrder, storeId, result, rawOrders, cartVars, storeVars>>

BatchNext == FormatOrders

BatchSpec == BatchInit /\ [][BatchNext]_vars

---------------------------------------------------------------------------
\* Claims about formatOrderDocuments (checked under BatchSpec)

Malformed(orders) == {i \in DOMAIN orders : ~WellFormed(orders[i])}

BatchError(e) == e.msg = "Order formatting failed for order ${_id}: ${error}"

\* C9: a batch holding a malformed order makes formatOrderDocuments throw an
\* error naming the id of the first malformed order, and no formatted order
\* is returned; a batch of well-formed orders gives one formatted order per
\* input order, in input order.
C9_BatchAllOrNothing ==
    (pc = "done") =>
        IF Malformed(rawOrders) # {}
        THEN /\ ~results.ok
             /\ BatchError(results.err)
             /\ results.err.order = rawOrders[Min(Malformed(rawOrders))]._id.hex
        ELSE /\ results.ok
             /\ Len(results.val) = Len(rawOrders)
             /\ \A i \in DOMAIN rawOrders : results.val[i]._id = rawOrders[i]._id.hex

C9_Witness ==
    /\ pc = "done"
    /\ Len(rawOrders) = 3
    /\ WellFormed(rawOrders[1])
    /\ HasSubOrders(rawOrders[2]) /\ rawOrders[2].subOrders = <<>>
    /\ WellFormed(rawOrders[3])
    /\ ~results.ok
    /\ results.err.order = "o2"
    /\ EmptyOrderError(results.err.cause)
    /\ Len(console) = 1 /\ console[1].index = 1

---------------------------------------------------------------------------
\* CartPage: the server-rendered cart page

ProductIds == {"P1", "P2"}

Prices == {1020, 5000, 24999, 25000}

Number(n) == [t |-> "number", n |-> n]

String(x) == [t |-> "string", s |-> x]

\* A stored cart item (ICartItem); selectedSize is absent or has a size.
CartItem(pid, type, qty) ==
    [product |-> ObjectId(pid), storeID |-> ObjectId("A"),
     quantity |-> qty, productType |-> type]

SizedCartItem(pid, type, qty, size) ==
    [product |-> ObjectId(pid), storeID |-> ObjectId("A"),
     quantity |-> qty, productType |-> type,
     selectedSize |-> [size |-> size, price |-> 1000, quantity |-> 5]]

CartItemVals ==
    {CartItem(pid, type, qty) :
        pid \in ProductIds, type \in {"Product", "digitalproducts"}, qty \in {1, 2}}
    \cup
    {SizedCartItem(pid, type, qty, "M") :
        pid \in ProductIds, type \in {"Product", "digitalproducts"}, qty \in {1, 2}}

\* cartItem.selectedSize?.size; NoString stands for undefined.
SizeOf(cartItem) ==
    IF "selectedSize" \in DOMAIN cartItem THEN cartItem.selectedSize.size ELSE NoString

\* The identity under which addItemToCart merges items.
Identity(cartItem) ==
    <<ToStr(cartItem.product), cartItem.productType, ToStr(cartItem.storeID),
      SizeOf(cartItem)>>

\* The carts cart.getByUserId can return: no cart, or a cart whose items
\* have pairwise distinct identities.
Carts ==
    {Null} \cup
    UNION {{[t |-> "doc", items |-> items] :
               items \in {f \in [1..n -> CartItemVals] :
                            \A i, k \in 1..n : i # k => Identity(f[i]) # Identity(f[k])}} :
           n \in 0..MaxCartItems}

\* A product record of cart.getManyByIds, with every field.
FullProduct(pid, price) ==
    [id |-> pid, name |-> "Name " \o pid, slug |-> "slug-" \o pid,
     image |-> "/" \o pid \o ".png", price |-> price,
     inStock |-> FALSE, maxQuantity |-> 5]

\* A product record without image, inStock and maxQuantity.
MinimalProduct(pid, price) ==
    [id |-> pid, name |-> "Name " \o pid, slug |-> "slug-" \o pid, price |-> price]

\* A product record without price.
PricelessProduct(pid) ==
    [id |-> pid, name |-> "Name " \o pid, slug |-> "slug-" \o pid]

\* What getManyByIds can hold for product pid: nothing, or one record.
ProductRecords(pid) ==
    {<<>>}
    \cup {<<FullProduct(pid, Number(n))>> : n \in Prices}
    \cup {<<MinimalProduct(pid, Number(1000))>>,
          <<MinimalProduct(pid, String("1000"))>>,
          <<PricelessProduct(pid)>>}

\* The results of cart.getManyByIds: undefined, or an array with at most
\* one record per product id.
ProductSets ==
    {Undefined} \cup
    {[t |-> "array", items |-> a \o b] :
        a \in ProductRecords("P1"), b \in ProductRecords("P2")}

\* products?.find((p) => p.id === cartItem.product.toString())
RECURSIVE FindIn(_, _)
FindIn(items, pid) ==
    IF items = <<>> THEN Undefined
    ELSE IF Head(items).id = pid THEN [t |-> "doc", doc |-> Head(items)]
    ELSE FindIn(Tail(items), pid)

FindProductNoToString(fetched, cartItem) == Undefined

FindProduct(fetched, cartItem) ==
    IF ~Truthy(fetched) THEN Undefined
    ELSE FindIn(fetched.items, ToStr(cartItem.product))

\* typeof product.price
TypeOfPrice(product) ==
    IF "price" \in DOMAIN product THEN TypeOf(product.price) ELSE "undefined"

\* `${cartItem.product}-${cartItem.selectedSize?.size ?? "nosize"}`
HydratedIdOfProduct(cartItem) == ToStr(cartItem.product)

HydratedId(cartItem) ==
    ToStr(cartItem.product) \o "-" \o
    (IF SizeOf(cartItem) = NoString THEN "nosize" ELSE SizeOf(cartItem))

\* The callback of cartData.items.map: null for a skipped item.
HydrateItem(cartItem, fetched) ==
    LET product == FindProduct(fetched, cartItem)
    IN  IF ~Truthy(product) \/ TypeOfPrice(product.doc) # "number" THEN Null
        ELSE [t |-> "doc",
              id |-> HydratedId(cartItem),
              productId |-> ToStr(cartItem.product),
              name |-> product.doc.name,
              slug |-> product.doc.slug,
              image |-> IF Get(product.doc, "image") \in {NoString, ""}
                        THEN "/placeholder.svg" ELSE product.doc.image,
              price |-> product.doc.price.n,
              quantity |-> cartItem.quantity,
              size |-> SizeOf(cartItem),
              inStock |-> IF "inStock" \in DOMAIN product.doc
                          THEN product.doc.inStock ELSE TRUE,
              maxQuantity |-> IF "maxQuantity" \in DOMAIN product.doc
                              THEN product.doc.maxQuantity ELSE 99]

\* The line console.warn writes for a skipped item.
WarnLine(cartItem) ==
    [level |-> "warn",
     msg |-> "Product not found or invalid data for cart item: ${cartItem.product}",
     product |-> ToStr(cartItem.product)]

\* cartData.items.map(...).filter((item) => item !== null)
RECURSIVE Hydrate(_, _)
Hydrate(items, fetched) ==
    IF items = <<>> THEN <<>>
    ELSE LET h == HydrateItem(Head(items), fetched)
         IN  IF h = Null THEN Hydrate(Tail(items), fetched)
             ELSE <<h>> \o Hydrate(Tail(items), fetched)

\* The warnings written while mapping, in cart order.
RECURSIVE Warnings(_, _)
Warnings(items, fetched) ==
    IF items = <<>> THEN <<>>
    ELSE IF HydrateItem(Head(items), fetched) = Null
         THEN <<WarnLine(Head(items))>> \o Warnings(Tail(items), fetched)
         ELSE Warnings(Tail(items), fetched)

RECURSIVE Subtotal(_)
Subtotal(items) ==
    IF items = <<>> THEN 0
    ELSE Head(items).price * Head(items).quantity + Subtotal(Tail(items))

FreeShippingThreshold == 50000

ShippingFee == 5000

\* Math.round(subtotal * 0.075) as the engine computes it.  The literal 0.075
\* is the double TaxRate * 2^-TaxRateScale, its 53-bit significand written in
\* base-Limb digits, least significant first.  The product of the two doubles
\* is formed exactly, rounded to DoubleSignificand bits (nearest, ties to
\* even) and then rounded to an integer by Math.round (nearest, ties towards
\* +Infinity).  The exact product is wider than the checker's integers and
\* is kept as digits p[1..7]: bits 0-23 are Low(p), bits 48 and up Top(p).
Limb == 4096
TaxRate == <<819, 819, 819, 819, 19>>
TaxRateScale == 56
DoubleSignificand == 53

RECURSIVE TimesDigits(_, _, _)
TimesDigits(n, digits, carry) ==
    IF digits = <<>>
    THEN <<carry % Limb, carry \div Limb>>
    ELSE LET t == n * Head(digits) + carry
         IN  <<t % Limb>> \o TimesDigits(n, Tail(digits), t \div Limb)

RECURSIVE BitLength(_)
BitLength(n) == IF n = 0 THEN 0 ELSE 1 + BitLength(n \div 2)

Low(p) == p[1] + Limb * p[2]

Top(p) == p[5] + Limb * (p[6] + Limb * p[7])

\* The number of low bits the rounding to a double drops from the product.
DroppedBits(p) ==
    LET len == IF Top(p) > 0 THEN 4 * 12 + BitLength(Top(p)) ELSE 0
    IN  IF len > DoubleSignificand THEN len - DoubleSignificand ELSE 0

\* The dropped bits are more than half a unit of the last kept bit, or
\* exactly half with the last kept bit odd.
RoundsUp(p) ==
    LET r == DroppedBits(p)
        rem == Low(p) % (2 ^ r)
    IN  /\ r >= 1
        /\ \/ rem > 2 ^ (r - 1)
           \/ rem = 2 ^ (r - 1) /\ (Low(p) \div (2 ^ r)) % 2 = 1

\* Every kept bit below 2^(TaxRateScale - 1), the bit of one half, is 1, so
\* that rounding up carries into the half.
CarriesIntoHalf(p) ==
    /\ Low(p) \div (2 ^ DroppedBits(p)) = 2 ^ (2 * 12 - DroppedBits(p)) - 1
    /\ p[3] = Limb - 1
    /\ p[4] = Limb - 1
    /\ Top(p) % (2 ^ (TaxRateScale - 1 - 4 * 12))
          = 2 ^ (TaxRateScale - 1 - 4 * 12) - 1

\* floor(2 * x) for the double x = subtotal * 0.075.
TwiceTimesTaxRate(subtotal) ==
    LET p == TimesDigits(subtotal, TaxRate, 0)
    IN  Top(p) \div (2 ^ (TaxRateScale - 1 - 4 * 12))
        + (IF RoundsUp(p) /\ CarriesIntoHalf(p) THEN 1 ELSE 0)

\* Math.floor(x) and Math.round(x), given floor(2 * x) for x >= 0.
MathFloor(twice) == twice \div 2

MathRound(twice) == (twice + 1) \div 2

TaxFloored(subtotal) == MathFloor(TwiceTimesTaxRate(subtotal))

Tax(subtotal) == MathRound(TwiceTimesTaxRate(subtotal))

\* subtotal >= 50000 ? 0 : 5000
ShippingAbove(subtotal) == IF subtotal > FreeShippingThreshold THEN 0 ELSE ShippingFee

Shipping(subtotal) == IF subtotal >= FreeShippingThreshold THEN 0 ELSE ShippingFee

RECURSIVE TotalQuantity(_)
TotalQuantity(items) ==
    IF items = <<>> THEN 0 ELSE Head(items).quantity + TotalQuantity(Tail(items))

OrderSummaryPerUnit(items) ==
    LET subtotal == Subtotal(items)
        shipping == Shipping(subtotal)
        tax == Tax(subtotal)
    IN  [subtotal |-> subtotal, shipping |-> shipping, tax |-> tax,
         discount |-> 0,
         total |-> subtotal + shipping + tax,
         itemCount |-> TotalQuantity(items)]

OrderSummary(items) ==
    LET subtotal == Subtotal(items)
        shipping == Shipping(subtotal)
        tax == Tax(subtotal)
        discount == 0
    IN  [subtotal |-> subtotal, shipping |-> shipping, tax |-> tax,
         discount |-> discount,
         total |-> subtotal + shipping + tax - discount,
         itemCount |-> Len(items)]

\* What is rendered for the hydrated items: the empty cart, before any total
\* is computed, when none survived, and the cart with its summary otherwise.
RenderUnguarded(items, summary) ==
    [page |-> "cart", orderSummary |-> OrderSummary(items)]

Render(items, summary) ==
    IF Len(items) = 0
    THEN [page |-> "empty", orderSummary |-> summary]
    ELSE [page |-> "cart", orderSummary |-> OrderSummary(items)]

SessionUser == [t |-> "doc", id |-> "u1"]

CartInit ==
    /\ pc = "getUser"
    /\ console = <<>>
    /\ rawOrder = Unset
    /\ storeId = NoString
    /\ result = Unset
    /\ rawOrders = <<>>
    /\ results = Unset
    /\ CartIdle
    /\ VerifyIdle
    /\ StoreIdle

\* await getUserFromCookie() resolves; unauthenticated users get the login
\* prompt.
GetUser ==
    /\ pc = "getUser"
    /\ \E u \in {Null, SessionUser} :
        /\ cookieUser' = u
        /\ IF ~Truthy(u)
           THEN pc' = "done" /\ page' = "login"
           ELSE pc' = "getCart" /\ page' = page
    /\ UNCHANGED <<verifyVars, storeVars, console, orderVars, cartData, products, hydratedCartItems, orderSummary>>

\* await caller.cart.getByUserId resolves; a missing or empty cart renders
\* the empty cart.
GetCart ==
    /\ pc = "getCart"
    /\ \E c \in Carts :
        /\ cartData' = c
        /\ IF ~Truthy(c) \/ Len(c.items) = 0
           THEN pc' = "done" /\ page' = "empty"
           ELSE pc' = "getProducts" /\ page' = page
    /\ UNCHANGED <<verifyVars, storeVars, console, orderVars, cookieUser, products, hydratedCartItems, orderSummary>>

\* await caller.cart.getManyByIds resolves; the items are hydrated, and the
\* totals computed unless no item survived.
GetProducts ==
    /\ pc = "getProducts"
    /\ \E fetched \in ProductSets :
        LET hydrated == Hydrate(cartData.items, fetched)
            rendered == Render(hydrated, orderSummary)
        IN  /\ products' = fetched
            /\ hydratedCartItems' = hydrated
            /\ console' = console \o Warnings(cartData.items, fetched)
            /\ page' = rendered.page
            /\ orderSummary' = rendered.orderSummary
    /\ pc' = "done"
    /\ UNCHANGED <<verifyVars, storeVars, orderVars, cookieUser, cartData>>

\* An awaited call rejects: the catch block logs and renders the error page.
Reject ==
    /\ pc \in {"getUser", "getCart", "getProducts"}
    /\ console' = Append(console,
                         [level |-> "error", msg |-> "CartPage: Failed to load cart data:"])
    /\ page' = "error"
    /\ pc' = "done"
    /\ UNCHANGED <<verifyVars, storeVars, orderVars, cookieUser, cartData, products, hydratedCartItems, orderSummary>>

CartNext == GetUser \/ GetCart \/ GetProducts \/ Reject

CartPageSpec == CartInit /\ [][CartNext]_vars

---------------------------------------------------------------------------
\* Claims about cart hydration (checked under CartPageSpec)

Hydrated == pc = "done" /\ products # Unset

\* Cart item i has its product among the fetched products with a numeric
\* price.
Usable(i) ==
    /\ products # Undefined
    /\ \E k \in DOMAIN products.items :
        /\ products.items[k].id = cartData.items[i].product.hex
        /\ "price" \in DOMAIN products.items[k]
        /\ products.items[k].price.t = "number"

Survivors == {i \in DOMAIN cartData.items : Usable(i)}

Omitted == DOMAIN cartData.items \ Survivors

\* The number of elements of S up to i.
RankIn(S, i) == Cardinality({k \in S : k <= i})

\* C10: hydration always completes; the hydrated list holds one entry per
\* cart item whose product was fetched with a numeric price, in cart order,
\* and nothing else; each omitted item gives one warning naming its product.
C10_HydrationSkips ==
    Hydrated =>
        /\ page \in {"cart", "empty"}
        /\ Len(hydratedCartItems) = Cardinality(Survivors)
        /\ \A i \in Survivors :
            /\ hydratedCartItems[RankIn(Survivors, i)].productId
                   = cartData.items[i].product.hex
            /\ hydratedCartItems[RankIn(Survivors, i)].quantity
                   = cartData.items[i].quantity
            /\ hydratedCartItems[RankIn(Survivors, i)].size = SizeOf(cartData.items[i])
        /\ Len(console) = Cardinality(Omitted)
        /\ \A i \in Omitted :
            /\ console[RankIn(Omitted, i)].level = "warn"
            /\ console[RankIn(Omitted, i)].product = cartData.items[i].product.hex

C10_Witness ==
    /\ Hydrated
    /\ Len(cartData.items) = 2
    /\ cartData.items[1].product.hex = "P1" /\ cartData.items[1].quantity = 2
    /\ cartData.items[2].product.hex = "P2" /\ cartData.items[2].quantity = 1
    /\ products # Undefined
    /\ Len(products.items) = 1
    /\ products.items[1] = MinimalProduct("P1", Number(1000))
    /\ Len(hydratedCartItems) = 1
    /\ hydratedCartItems[1].productId = "P1"
    /\ Len(console) = 1
    /\ console[1].product = "P2"

---------------------------------------------------------------------------
\* Claims about the order summary (checked under CartPageSpec)

Summarized == pc = "done" /\ page = "cart"

\* C11: shipping is 0 for a subtotal of 50000 or more and 5000 below it.
C11_ShippingBoundary ==
    Summarized =>
        /\ orderSummary.subtotal >= 50000 => orderSummary.shipping = 0
        /\ orderSummary.subtotal < 50000 => orderSummary.shipping = 5000

C11_Witness ==
    /\ Summarized
    /\ orderSummary.subtotal = 49999
    /\ orderSummary.shipping = 5000

\* C12: the tax of a summary is 7.5% of its subtotal rounded to the nearest
\* unit, halves up: floor((subtotal * 75 + 500) / 1000).
C12_TaxRounded ==
    Summarized =>
        /\ orderSummary.subtotal >= 0
        /\ orderSummary.tax = (orderSummary.subtotal * 75 + 500) \div 1000

\* subtotal 1020: 7.5% is 76.5, a half, and the tax is 77.
C12_Witness ==
    /\ Summarized
    /\ orderSummary.subtotal = 1020
    /\ orderSummary.tax = 77

\* The price fetched for cart item i, a survivor.
FetchedPrice(i) ==
    LET k == Min({k \in DOMAIN products.items :
                     products.items[k].id = cartData.items[i].product.hex})
    IN  products.items[k].price.n

RECURSIVE SumOfLines(_)
SumOfLines(S) ==
    IF S = {} THEN 0
    ELSE LET i == CHOOSE i \in S : TRUE
         IN  FetchedPrice(i) * cartData.items[i].quantity + SumOfLines(S \ {i})

\* C13: the subtotal sums price x quantity over the surviving items only,
\* the discount is 0, the total is subtotal + shipping + tax - discount, and
\* itemCount is the number of surviving line items.
C13_SummaryTotals ==
    Summarized =>
        /\ orderSummary.subtotal = SumOfLines(Survivors)
        /\ orderSummary.discount = 0
        /\ orderSummary.total =
              orderSummary.subtotal + orderSummary.shipping + orderSummary.tax
              - orderSummary.discount
        /\ orderSummary.itemCount = Cardinality(Survivors)

\* Two stored items, one skipped, the survivor with quantity 2: one line.
C13_Witness ==
    /\ Summarized
    /\ Len(cartData.items) = 2
    /\ Cardinality(Survivors) = 1
    /\ \E i \in Survivors : cartData.items[i].quantity = 2
    /\ orderSummary.itemCount = 1
    /\ orderSummary.subtotal = 10000

\* C19: no order summary exists for an empty item list: an unauthenticated
\* user, a missing or empty cart, or a cart whose items were all skipped ends
\* in the empty-cart state with no totals, and a summary has at least one
\* hydrated item.
C19_NoEmptySummary ==
    /\ pc # "done" => orderSummary = Unset
    /\ pc = "done" =>
          /\ orderSummary # Unset <=> page = "cart"
          /\ page = "cart" =>
                /\ Len(hydratedCartItems) >= 1
                /\ orderSummary.itemCount >= 1
          /\ page # "error" =>
                /\ cookieUser = Null => page = "login"
                /\ cartData = Null => page = "empty"
                /\ (cartData # Unset /\ cartData # Null
                    /\ Len(cartData.items) = 0) => page = "empty"
                /\ (products # Unset /\ Survivors = {}) => page = "empty"

\* Every item of a non-empty cart was skipped.
C19_Witness ==
    /\ pc = "done"
    /\ products # Unset
    /\ Len(cartData.items) = 2
    /\ products # Undefined
    /\ Len(products.items) >= 1
    /\ Survivors = {}
    /\ page = "empty"
    /\ orderSummary = Unset

\* The items of the stored cart have pairwise distinct identities.
DistinctCartIdentities ==
    \A i, k \in DOMAIN cartData.items :
        i # k => Identity(cartData.items[i]) # Identity(cartData.items[k])

\* C22 as stated: the hydrated items of a cart whose items have pairwise
\* distinct identities have pairwise distinct ids.
C22_Original ==
    (Hydrated /\ DistinctCartIdentities) =>
        \A i, k \in DOMAIN hydratedCartItems :
            i # k => hydratedCartItems[i].id # hydratedCartItems[k].id

\* The size label the id is built from: "nosize" for an item without one.
IdLabel(cartItem) ==
    IF "selectedSize" \in DOMAIN cartItem THEN cartItem.selectedSize.size ELSE "nosize"

\* C22 amended: two hydrated items have the same id exactly when their cart
\* items have the same product id and the same size label, an absent label
\* counting as "nosize"; the product type and the store are not part of the
\* id, so items that differ only in them share an id.
C22_IdsByProductAndSize ==
    Hydrated =>
        \A i, k \in Survivors :
            (hydratedCartItems[RankIn(Survivors, i)].id
                = hydratedCartItems[RankIn(Survivors, k)].id)
            <=> (/\ cartData.items[i].product = cartData.items[k].product
                 /\ IdLabel(cartData.items[i]) = IdLabel(cartData.items[k]))

\* One product with and without a size, both hydrated, with different ids.
C22_Witness ==
    /\ Hydrated
    /\ Len(cartData.items) = 2
    /\ Survivors = {1, 2}
    /\ cartData.items[1].product = cartData.items[2].product
    /\ cartData.items[1].productType = cartData.items[2].productType
    /\ SizeOf(cartData.items[1]) = NoString
    /\ SizeOf(cartData.items[2]) = "M"
    /\ hydratedCartItems[1].id = "P1-nosize"
    /\ hydratedCartItems[2].id = "P1-M"

---------------------------------------------------------------------------
\* The cart model (cart.model.ts): the carts collection and its operations

\* The total quantity stored in the collection stays within MaxQuantity.
MaxQuantity == 4

UserIds == {"u1", "u2"}

\* The user whose removals and updates are explored; the other user only adds.
Shopper == "u1"

\* A cart item as the callers pass it and as it is stored (ICartItem).
StoredItem(pid, type, store, qty, size) ==
    IF size = NoString
    THEN [CartItem(pid, type, qty) EXCEPT !.storeID = ObjectId(store)]
    ELSE [SizedCartItem(pid, type, qty, size) EXCEPT !.storeID = ObjectId(store)]

\* A cart document as mongoose stores it: the version key starts at 0.
CartDocument(userId, items, version) ==
    [user |-> ObjectId(userId), items |-> items, version |-> version]

\* `!size`: an absent or empty size is not a size.
SizeGiven(size) == size \notin {NoString, ""}

\* Cart.findOne({ user: userId }): the position of the first cart of the
\* user in the collection, 0 for null.
FindOne(coll, userId) ==
    LET found == {i \in DOMAIN coll : ToStr(coll[i].user) = userId}
    IN  IF found = {} THEN 0 ELSE Min(found)

DuplicateKeyError == [msg |-> "E11000 duplicate key error", key |-> "user"]

VersionError == [msg |-> "No matching document found for id ${_id} version ${__v}"]

\* The required paths of CartItemSchema fail validation on save.
ValidationError == [msg |-> "Cart validation failed: Path product is required."]

\* The server cannot create a field inside a null array element.
WriteError == [msg |-> "Cannot create field 'quantity' in element {0: null}"]

\* The error of the callbacks of findIndex and find on an element that is
\* no cart item: item.product fails on null, and item.product.toString() on
\* an element that has no product.
ItemTypeError(item) ==
    [msg |-> IF item = Null
             THEN "TypeError: Cannot read properties of null (reading 'product')"
             ELSE "TypeError: Cannot read properties of undefined (reading 'toString')"]

\* An element of a stored items array that has the required paths of
\* CartItemSchema.  An update of items.<i>.quantity at a position the stored
\* array no longer has leaves elements without them.
IsCartItem(item) == item # Null /\ "product" \in DOMAIN item

\* Cart.create(doc) under the unique index on `user`: the insert is rejected
\* when the collection holds a cart of that user.
CreateUnindexed(coll, doc) ==
    [coll |-> Append(coll, doc), ret |-> Ok(doc)]

Create(coll, doc) ==
    IF FindOne(coll, ToStr(doc.user)) # 0
    THEN [coll |-> coll, ret |-> Throw(DuplicateKeyError)]
    ELSE [coll |-> Append(coll, doc), ret |-> Ok(doc)]

\* The comparison of the findIndex callback of addItemToCart.
SameSizedIdentity(item, newItem) ==
    /\ ToStr(item.product) = ToStr(newItem.product)
    /\ item.productType = newItem.productType
    /\ ToStr(item.storeID) = ToStr(newItem.storeID)
    /\ "selectedSize" \in DOMAIN item
    /\ "selectedSize" \in DOMAIN newItem
    /\ item.selectedSize.size = newItem.selectedSize.size

SameIdentity(item, newItem) ==
    /\ ToStr(item.product) = ToStr(newItem.product)
    /\ item.productType = newItem.productType
    /\ ToStr(item.storeID) = ToStr(newItem.storeID)
    /\ SizeOf(item) = SizeOf(newItem)

\* array.findIndex / array.find with a callback that reads item.product: the
\* elements are visited in order up to the first match, and the callback
\* throws on an element without a product.  matching is the set of positions
\* the callback accepts; the value is the first of them, 0 when there is none.
FirstMatch(items, matching) ==
    LET broken == {i \in DOMAIN items : ~IsCartItem(items[i])}
    IN  IF broken # {} /\ (matching = {} \/ Min(broken) < Min(matching))
        THEN Throw(ItemTypeError(items[Min(broken)]))
        ELSE Ok(IF matching = {} THEN 0 ELSE Min(matching))

LastMatch(items, matching) ==
    LET broken == {i \in DOMAIN items : ~IsCartItem(items[i])}
    IN  IF broken # {} /\ (matching = {} \/ Min(broken) < Min(matching))
        THEN Throw(ItemTypeError(items[Min(broken)]))
        ELSE Ok(IF matching = {} THEN 0 ELSE Max(matching))

\* existingCart.items.findIndex(...): the first matching position, 0 for -1.
FindIndex(items, newItem) ==
    FirstMatch(items, {i \in DOMAIN items :
                          IsCartItem(items[i]) /\ SameIdentity(items[i], newItem)})

\* The validation that precedes every save: each element of the items array
\* that is not null must have the required paths.
Validates(cart) ==
    \A i \in DOMAIN cart.items : cart.items[i] = Null \/ IsCartItem(cart.items[i])

\* The update { $set: { "items.<index>.quantity": quantity } } on a stored
\* array: the element at the position gets the quantity, and an array that
\* is too short is extended with nulls and a new element.
SetQuantity(items, index, quantity) ==
    [i \in 1..Max({Len(items), index}) |->
        IF i = index
        THEN IF i <= Len(items)
             THEN [items[i] EXCEPT !.quantity = quantity]
             ELSE [quantity |-> quantity]
        ELSE IF i <= Len(items) THEN items[i] ELSE Null]

\* cart.save() after items[index].quantity was assigned, for the document
\* read as `cart` from position id.  The document is validated; an assignment
\* of the value the item had modifies nothing and sends no update; otherwise
\* the update sets items.<index>.quantity on the stored document and is
\* conditioned on the version that was read.
SaveQuantity(coll, id, cart, index, quantity) ==
    IF ~Validates(cart)
    THEN [coll |-> coll, ret |-> Throw(ValidationError)]
    ELSE IF cart.items[index].quantity = quantity
    THEN [coll |-> coll, ret |-> Ok(cart)]
    ELSE IF coll[id].version # cart.version
    THEN [coll |-> coll, ret |-> Throw(VersionError)]
    ELSE IF index <= Len(coll[id].items) /\ coll[id].items[index] = Null
    THEN [coll |-> coll, ret |-> Throw(WriteError)]
    ELSE [coll |-> [coll EXCEPT ![id].items = SetQuantity(@, index, quantity)],
          ret |-> Ok([cart EXCEPT !.items[index].quantity = quantity])]

\* cart.save() after items.push(newItem): the update pushes the item onto
\* the stored list, whatever was stored since the read, and increments the
\* version, of the stored document and of the document in memory.
SavePush(coll, id, cart, newItem) ==
    IF ~Validates(cart)
    THEN [coll |-> coll, ret |-> Throw(ValidationError)]
    ELSE [coll |-> [coll EXCEPT ![id].items = Append(@, newItem),
                                ![id].version = @ + 1],
          ret |-> Ok([cart EXCEPT !.items = Append(@, newItem),
                                  !.version = @ + 1])]

\* addItemToCart after its findOne resolved to the cart at position id (0:
\* no cart), read as `existingCart`; coll is the collection at the time of
\* the create or save.
AddItemAfterFind(coll, userId, newItem, id, existingCart) ==
    IF id = 0
    THEN Create(coll, CartDocument(userId, <<newItem>>, 0))
    ELSE LET itemIndex == FindIndex(existingCart.items, newItem)
         IN  IF ~itemIndex.ok
             THEN [coll |-> coll, ret |-> itemIndex]
             ELSE IF itemIndex.val > 0
             THEN SaveQuantity(coll, id, existingCart, itemIndex.val,
                      existingCart.items[itemIndex.val].quantity + newItem.quantity)
             ELSE SavePush(coll, id, existingCart, newItem)

\* addItemToCart run on its own.
addItemToCart(coll, userId, newItem) ==
    LET id == FindOne(coll, userId)
    IN  AddItemAfterFind(coll, userId, newItem, id,
                         IF id = 0 THEN Null ELSE coll[id])

\* The $pull condition of removeItemFromCart.
PulledByProduct(item, productId, size) ==
    IsCartItem(item) /\ ToStr(item.product) = productId

Pulled(item, productId, size) ==
    /\ IsCartItem(item)
    /\ ToStr(item.product) = productId
    /\ SizeGiven(size) => SizeOf(item) = size

RECURSIVE Pull(_, _, _)
Pull(items, productId, size) ==
    IF items = <<>> THEN <<>>
    ELSE IF Pulled(Head(items), productId, size)
         THEN Pull(Tail(items), productId, size)
         ELSE <<Head(items)>> \o Pull(Tail(items), productId, size)

\* Cart.findOneAndUpdate({ user }, { $pull }, { new: true }): one operation
\* of the server, which leaves the version as it is.
removeItemFromCart(coll, userId, productId, size) ==
    LET id == FindOne(coll, userId)
    IN  IF id = 0 THEN [coll |-> coll, ret |-> Ok(Null)]
        ELSE LET updated == [coll EXCEPT ![id].items = Pull(@, productId, size)]
             IN  [coll |-> updated, ret |-> Ok(updated[id])]

\* The callback of cart.items.find of updateCartItemQuantity.
Found(item, productId, size) ==
    /\ ToStr(item.product) = productId
    /\ (~SizeGiven(size) \/ SizeOf(item) = size)

\* cart.items.find(...): the position of the first match, 0 for undefined.
FindLast(items, productId, size) ==
    LastMatch(items, {i \in DOMAIN items :
                         IsCartItem(items[i]) /\ Found(items[i], productId, size)})

Find(items, productId, size) ==
    FirstMatch(items, {i \in DOMAIN items :
                          IsCartItem(items[i]) /\ Found(items[i], productId, size)})

\* updateCartItemQuantity after its findOne resolved to the cart at position
\* id (0: no cart), read as `cart`; coll is the collection at the time of
\* the save.
UpdateAfterFind(coll, quantity, productId, size, id, cart) ==
    IF id = 0 THEN [coll |-> coll, ret |-> Ok(Null)]
    ELSE LET item == Find(cart.items, productId, size)
         IN  IF ~item.ok THEN [coll |-> coll, ret |-> item]
             ELSE IF item.val = 0 THEN [coll |-> coll, ret |-> Ok(Null)]
             ELSE SaveQuantity(coll, id, cart, item.val, quantity)

\* updateCartItemQuantity run on its own.
updateCartItemQuantity(coll, userId, productId, quantity, size) ==
    LET id == FindOne(coll, userId)
    IN  UpdateAfterFind(coll, quantity, productId, size, id,
                        IF id = 0 THEN Null ELSE coll[id])

---------------------------------------------------------------------------
\* CartStoreSpec: two callers make one call of the cart model each; a call
\* takes one step per await that reads or writes the collection

Callers == {1, 2}

\* The size argument of a removal or an update: none, or a label.
SizeArguments == {NoString, "M"}

RECURSIVE QuantityIn(_)
QuantityIn(items) ==
    IF items = <<>> THEN 0
    ELSE (IF Head(items) = Null THEN 0 ELSE Head(items).quantity)
         + QuantityIn(Tail(items))

RECURSIVE StoredQuantity(_)
StoredQuantity(coll) ==
    IF coll = <<>> THEN 0
    ELSE QuantityIn(Head(coll).items) + StoredQuantity(Tail(coll))

\* The items the callers add: the first caller adds to the cart of u1, the
\* second to the carts of both users.
AddedItems(p, userId) ==
    IF p = 1
    THEN IF userId = "u1"
         THEN {StoredItem("P1", "Product", "A", 1, NoString),
               StoredItem("P1", "Product", "A", 1, "M"),
               StoredItem("P1", "Product", "A", 2, "M"),
               StoredItem("P2", "Product", "A", 1, "M")}
         ELSE {}
    ELSE IF userId = "u1"
         THEN {StoredItem("P1", "Product", "A", 1, "M"),
               StoredItem("P2", "Product", "A", 1, "M")}
         ELSE {StoredItem("P1", "Product", "A", 1, NoString)}

\* The arguments (productId, quantity, size) of the removals and updates of
\* the callers.
RemovedItems(p) ==
    IF p = 1 THEN ProductIds \X {0} \X SizeArguments ELSE {<<"P1", 0, "M">>}

UpdatedItems(p) ==
    IF p = 1 THEN ProductIds \X {1, MaxQuantity - 1} \X SizeArguments
    ELSE {<<"P1", MaxQuantity - 1, "M">>}

\* The items a cart of u1 may hold when the calls start, in the order in
\* which they are stored: product P1 under identities that differ in type,
\* store and size.
StoredPool ==
    <<StoredItem("P1", "Product", "A", 1, NoString),
      StoredItem("P1", "Product", "A", 1, "L"),
      StoredItem("P1", "digitalproducts", "A", 1, "M"),
      StoredItem("P1", "Product", "B", 1, "M"),
      StoredItem("P1", "Product", "A", 1, "M")>>

\* The items of StoredPool at the positions chosen, in order.
RECURSIVE Chosen(_, _)
Chosen(chosen, from) ==
    IF from > Len(StoredPool) THEN <<>>
    ELSE (IF from \in chosen THEN <<StoredPool[from]>> ELSE <<>>)
         \o Chosen(chosen, from + 1)

\* The carts of u1 that earlier calls, run one at a time, have left: at most
\* MaxCartItems items of distinct identities, the first with quantity 1 or 2.
\* Every push has incremented the version.
StoredCarts ==
    {CartDocument("u1", items, Max({Len(items) - 1, 0})) :
        items \in {IF chosen = {} THEN <<>>
                   ELSE [Chosen(chosen, 1) EXCEPT ![1].quantity = first] :
                      chosen \in {c \in SUBSET DOMAIN StoredPool :
                                     Cardinality(c) <= MaxCartItems},
                      first \in {1, 2}}}

\* The collection when the calls start: u1 and u2 each have a cart or none.
StoredCollections ==
    {coll \in {<<>>} \cup {<<cart>> : cart \in StoredCarts}
              \cup {<<cart, CartDocument("u2", <<StoredPool[1]>>, 0)>> :
                       cart \in StoredCarts}
              \cup {<<CartDocument("u2", <<StoredPool[1]>>, 0)>>} :
        StoredQuantity(coll) <= MaxQuantity}

\* A call from its invocation up to its first read of the collection; alone
\* tells whether no other call has been in progress since the invocation.
Called(op, first, userId, newItem, productId, quantity, size) ==
    [pc |-> first, op |-> op, user |-> userId, item |-> newItem,
     product |-> productId, quantity |-> quantity, size |-> size,
     id |-> 0, existingCart |-> Null, ret |-> Unset, alone |-> FALSE]

\* A caller that has made no call yet.
Idle == [Called("none", "idle", NoString, Null, NoString, 0, NoString)
            EXCEPT !.alone = TRUE]

InProgress(p) == procs[p].pc \notin {"idle", "returned"}

CartStoreInit ==
    /\ pc = "serving"
    /\ console = <<>>
    /\ rawOrder = Unset
    /\ storeId = NoString
    /\ result = Unset
    /\ rawOrders = <<>>
    /\ results = Unset
    /\ CartIdle
    /\ VerifyIdle
    /\ carts \in StoredCollections
    /\ call = Unset
    /\ procs = [p \in Callers |-> Idle]

\* The calls when caller p has made the call `started`, which runs up to its
\* first await on the collection: the calls in progress are no longer alone.
Invoked(p, started) ==
    [q \in Callers |->
        IF q = p
        THEN [started EXCEPT !.alone = \A o \in Callers \ {p} : ~InProgress(o)]
        ELSE [procs[q] EXCEPT !.alone = @ /\ ~InProgress(q)]]

\* The call of caller p, whose record has become proc, returns or throws:
\* `call` keeps the call, the collection just before its last step, and
\* whether every call that has returned so far ran alone.
Returned(p, proc, outcome) ==
    /\ carts' = outcome.coll
    /\ procs' = [procs EXCEPT ![p] = [proc EXCEPT !.ret = outcome.ret,
                                                  !.pc = "returned"]]
    /\ call' = [op |-> proc.op, user |-> proc.user, item |-> proc.item,
                product |-> proc.product, quantity |-> proc.quantity,
                size |-> proc.size, before |-> carts, ret |-> outcome.ret,
                serial |-> proc.alone /\ (IF call = Unset THEN TRUE ELSE call.serial)]
    /\ UNCHANGED <<verifyVars, pc, console, orderVars, cartVars>>

\* The call of caller p goes on to its next await.
Awaiting(p, proc, next) ==
    /\ procs' = [procs EXCEPT ![p] = [proc EXCEPT !.pc = next]]
    /\ UNCHANGED <<verifyVars, pc, console, orderVars, cartVars, carts, call>>

\* The cart of the user that a findOne of caller p resolves to.
Read(p) ==
    LET id == FindOne(carts, procs[p].user)
    IN  [procs[p] EXCEPT !.id = id,
                         !.existingCart = IF id = 0 THEN Null ELSE carts[id]]

\* addItemToCart(userId, newItem) is called (lines 144-149).
AddItemToCart(p) ==
    /\ procs[p].pc = "idle"
    /\ \E userId \in UserIds : \E newItem \in AddedItems(p, userId) :
          procs' = Invoked(p, Called("addItemToCart", "findOne", userId, newItem,
                                     ToStr(newItem.product), newItem.quantity,
                                     SizeOf(newItem)))
    /\ UNCHANGED <<verifyVars, pc, console, orderVars, cartVars, carts, call>>

\* await Cart.findOne resolves for the addItemToCart of caller p (line 159),
\* and the call runs up to its create or save; the findIndex callback may
\* throw.
FindCart(p) ==
    /\ procs[p].pc = "findOne"
    /\ LET proc == Read(p)
       IN  IF proc.id = 0
           THEN Awaiting(p, proc, "create")
           ELSE LET itemIndex == FindIndex(proc.existingCart.items, proc.item)
                IN  IF itemIndex.ok
                    THEN Awaiting(p, proc, "save")
                    ELSE Returned(p, proc, [coll |-> carts, ret |-> itemIndex])

\* The create or save of call p takes effect and the call returns or throws.
Written(p) ==
    Returned(p, procs[p],
             AddItemAfterFind(carts, procs[p].user, procs[p].item,
                              procs[p].id, procs[p].existingCart))

\* await Cart.create resolves or rejects for call p (lines 163-166).
CreateCart(p) == procs[p].pc = "create" /\ Written(p)

\* await existingCart.save resolves or rejects for call p (line 185).
SaveCart(p) == procs[p].pc = "save" /\ Written(p)

\* removeItemFromCart(userId, productId, size) is called (lines 197-207).
RemoveItemFromCart(p) ==
    /\ procs[p].pc = "idle"
    /\ \E userId \in {Shopper}, removed \in RemovedItems(p) :
          procs' = Invoked(p, Called("removeItemFromCart", "findOneAndUpdate",
                                     userId, Null, removed[1], removed[2],
                                     removed[3]))
    /\ UNCHANGED <<verifyVars, pc, console, orderVars, cartVars, carts, call>>

\* await Cart.findOneAndUpdate resolves for call p (lines 209-211).
PullItems(p) ==
    /\ procs[p].pc = "findOneAndUpdate"
    /\ Returned(p, procs[p],
                removeItemFromCart(carts, procs[p].user, procs[p].product,
                                   procs[p].size))

\* updateCartItemQuantity(userId, productId, quantity, size) is called
\* (lines 222-229).
UpdateCartItemQuantity(p) ==
    /\ procs[p].pc = "idle"
    /\ \E userId \in {Shopper}, updated \in UpdatedItems(p) :
          procs' = Invoked(p, Called("updateCartItemQuantity", "findCart",
                                     userId, Null, updated[1], updated[2],
                                     updated[3]))
    /\ UNCHANGED <<verifyVars, pc, console, orderVars, cartVars, carts, call>>

\* await Cart.findOne resolves for the updateCartItemQuantity of caller p
\* (line 231), and the call returns null, throws in the find callback, or
\* assigns the quantity and goes on to its save (lines 232-242).
FindCartToUpdate(p) ==
    /\ procs[p].pc = "findCart"
    /\ LET proc == Read(p)
           item == IF proc.id = 0 THEN Ok(0)
                   ELSE Find(proc.existingCart.items, proc.product, proc.size)
       IN  IF item.ok /\ item.val > 0
           THEN Awaiting(p, proc, "saveCart")
           ELSE Returned(p, proc,
                         UpdateAfterFind(carts, proc.quantity, proc.product,
                                         proc.size, proc.id, proc.existingCart))

\* await cart.save resolves or rejects for call p (line 244).
SaveUpdatedCart(p) ==
    /\ procs[p].pc = "saveCart"
    /\ Returned(p, procs[p],
                UpdateAfterFind(carts, procs[p].quantity, procs[p].product,
                                procs[p].size, procs[p].id, procs[p].existingCart))

CartStoreNext ==
    \E p \in Callers :
        \/ AddItemToCart(p) \/ FindCart(p) \/ CreateCart(p) \/ SaveCart(p)
        \/ RemoveItemFromCart(p) \/ PullItems(p)
        \/ UpdateCartItemQuantity(p) \/ FindCartToUpdate(p) \/ SaveUpdatedCart(p)

CartStoreSpec == CartStoreInit /\ [][CartStoreNext]_vars

---------------------------------------------------------------------------
\* Claims about the calls of the cart model (checked under CartStoreSpec)

\* The position of the user's cart in a collection, 0 when there is none.
CartOf(coll, userId) ==
    IF \E i \in DOMAIN coll : coll[i].user = ObjectId(userId)
    THEN CHOOSE i \in DOMAIN coll : coll[i].user = ObjectId(userId)
    ELSE 0

\* The items of the user's cart before and after the last call.
ItemsBefore == call.before[CartOf(call.before, call.user)].items

ItemsAfter == carts[CartOf(carts, call.user)].items

\* Every cart but the caller's is as it was before the last call.
OthersUnchanged ==
    /\ \A i \in DOMAIN call.before :
          call.before[i].user # ObjectId(call.user) =>
              (i \in DOMAIN carts /\ carts[i] = call.before[i])
    /\ \A i \in DOMAIN carts :
          carts[i].user # ObjectId(call.user) => i \in DOMAIN call.before

DistinctIdentities(items) ==
    \A i, k \in DOMAIN items : i # k => Identity(items[i]) # Identity(items[k])

\* The positions of the items of the cart before the last call that have
\* the identity of the added item.
SameIdentityBefore ==
    IF CartOf(call.before, call.user) = 0 THEN {}
    ELSE {i \in DOMAIN ItemsBefore : Identity(ItemsBefore[i]) = Identity(call.item)}

\* Every call that has returned so far ran with no other call in progress.
OneAtATime == call = Unset \/ call.serial

\* C14: while the calls run one at a time, no two items of a cart share an
\* identity (product, type, store, size label), and an addItemToCart whose
\* item has the identity of a stored item keeps the number of items and adds
\* the added quantity to that item.
C14_IdentityMerge ==
    /\ OneAtATime => \A c \in DOMAIN carts : DistinctIdentities(carts[c].items)
    /\ (call # Unset /\ call.serial /\ call.op = "addItemToCart") =>
          \A i \in SameIdentityBefore :
              /\ Len(ItemsAfter) = Len(ItemsBefore)
              /\ ItemsAfter[i].quantity
                    = ItemsBefore[i].quantity + call.item.quantity
              /\ \A k \in DOMAIN ItemsBefore : k # i => ItemsAfter[k] = ItemsBefore[k]

\* P1/M with quantity 2 receives P1/M with quantity 1, next to an unsized P1.
C14_Witness ==
    /\ call # Unset
    /\ call.serial
    /\ call.op = "addItemToCart"
    /\ call.item = StoredItem("P1", "Product", "A", 1, "M")
    /\ \E i \in SameIdentityBefore :
          /\ ItemsBefore[i].quantity = 2
          /\ ItemsAfter[i].quantity = 3
    /\ \E k \in DOMAIN ItemsBefore : SizeOf(ItemsBefore[k]) = NoString
    /\ Len(ItemsAfter) = 2

\* The positions of the items the last call (a removal or an update) names:
\* those of its product and, when it has a size, of that size label.
Named ==
    IF CartOf(call.before, call.user) = 0 THEN {}
    ELSE {i \in DOMAIN ItemsBefore :
             /\ IsCartItem(ItemsBefore[i])
             /\ ItemsBefore[i].product = ObjectId(call.product)
             /\ call.size # NoString => SizeOf(ItemsBefore[i]) = call.size}

\* C17: removeItemFromCart removes from the user's cart the items of the
\* product that have the given size label, or every item of the product when
\* no size is given, keeps every other item, in order, and changes no other
\* cart.
C17_RemoveFrame ==
    (call # Unset /\ call.op = "removeItemFromCart") =>
        /\ Len(carts) = Len(call.before)
        /\ OthersUnchanged
        /\ CartOf(call.before, call.user) = CartOf(carts, call.user)
        /\ CartOf(call.before, call.user) # 0 =>
              LET kept == DOMAIN ItemsBefore \ Named
              IN  /\ Len(ItemsAfter) = Cardinality(kept)
                  /\ \A i \in kept : ItemsAfter[RankIn(kept, i)] = ItemsBefore[i]

\* P1 is removed with size M: two M items that differ in type or store go,
\* an item of P1 with another or no size stays, and another user has a cart.
C17_Witness ==
    /\ call # Unset
    /\ call.op = "removeItemFromCart"
    /\ call.product = "P1"
    /\ call.size = "M"
    /\ CartOf(call.before, call.user) # 0
    /\ Cardinality(Named) = 2
    /\ Len(ItemsBefore) = 3
    /\ Len(ItemsAfter) = 1
    /\ ItemsAfter[1].product = ObjectId("P1")
    /\ Len(carts) = 2

\* C18: updateCartItemQuantity, run with no other call in progress, returns
\* null and changes nothing when the user has no cart or no item matches;
\* otherwise it sets the quantity of the first matching item and changes
\* nothing else.
C18_UpdateFirstMatch ==
    (call # Unset /\ call.serial /\ call.op = "updateCartItemQuantity") =>
        IF Named = {}
        THEN /\ call.ret = Ok(Null)
             /\ carts = call.before
        ELSE /\ call.ret.ok
             /\ call.ret.val # Null
             /\ carts = [call.before EXCEPT
                           ![CartOf(call.before, call.user)].items[Min(Named)].quantity
                               = call.quantity]

\* Two items match, and the quantity of the first changes.
C18_Witness ==
    /\ call # Unset
    /\ call.serial
    /\ call.op = "updateCartItemQuantity"
    /\ Cardinality(Named) = 2
    /\ Len(ItemsBefore) = 3
    /\ Min(Named) = 2
    /\ ItemsBefore[2].quantity # call.quantity
    /\ ItemsAfter[2].quantity = call.quantity
    /\ call.size = "M"

---------------------------------------------------------------------------
\* CartRaceSpec: two addItemToCart calls that are in progress together

RaceItems ==
    {StoredItem("P1", "Product", "A", 1, "M"),
     StoredItem("P1", "Product", "A", 2, "M"),
     StoredItem("P1", "Product", "A", 1, NoString)}

\* The collection when the calls start: empty, or the cart of u1 as earlier
\* calls left it.
RaceCarts ==
    {<<>>}
    \cup {<<CartDocument("u1", items, Max({Len(items) - 1, 0}))>> :
             items \in {<<>>,
                        <<StoredItem("P1", "Product", "A", 1, "M")>>,
                        <<StoredItem("P1", "Product", "A", 1, "L"),
                          StoredItem("P1", "Product", "A", 2, "M")>>}}

\* A call that has not yet reached its findOne.
Started(userId, newItem) ==
    Called("addItemToCart", "findOne", userId, newItem, ToStr(newItem.product),
           newItem.quantity, SizeOf(newItem))

RaceInit ==
    /\ pc = "racing"
    /\ console = <<>>
    /\ rawOrder = Unset
    /\ storeId = NoString
    /\ result = Unset
    /\ rawOrders = <<>>
    /\ results = Unset
    /\ CartIdle
    /\ VerifyIdle
    /\ carts \in RaceCarts
    /\ call = Unset
    /\ \E u1 \in UserIds, u2 \in UserIds, i1 \in RaceItems, i2 \in RaceItems :
          procs = [p \in Callers |->
                      IF p = 1 THEN Started(u1, i1) ELSE Started(u2, i2)]

RaceNext == \E p \in Callers : FindCart(p) \/ CreateCart(p) \/ SaveCart(p)

CartRaceSpec == RaceInit /\ [][RaceNext]_vars

---------------------------------------------------------------------------
\* Claims about interleaved addItemToCart calls (checked under CartRaceSpec)

CartsOfUser(userId) == {i \in DOMAIN carts : carts[i].user = ObjectId(userId)}

BothReturned == \A p \in Callers : procs[p].pc = "returned"

\* C15: the collection never holds two carts of one user; of two calls for
\* one user that both found no cart, one creates the cart and the create of
\* the other is rejected by the unique index.
C15_OneCartPerUser ==
    /\ \A u \in UserIds : Cardinality(CartsOfUser(u)) <= 1
    /\ (/\ BothReturned
        /\ procs[1].user = procs[2].user
        /\ procs[1].id = 0
        /\ procs[2].id = 0) =>
          /\ Cardinality(CartsOfUser(procs[1].user)) = 1
          /\ \E p \in Callers :
                /\ procs[p].ret.ok
                /\ procs[3 - p].ret = Throw(DuplicateKeyError)
                /\ carts[Min(CartsOfUser(procs[1].user))].items = <<procs[p].item>>

C15_Witness ==
    /\ BothReturned
    /\ procs[1].user = procs[2].user
    /\ procs[1].id = 0
    /\ procs[2].id = 0
    /\ procs[1].ret = Throw(DuplicateKeyError)
    /\ procs[2].ret.ok
    /\ Len(carts) = 1

\* The quantity the user's cart held under the identity of the item when
\* the two calls started: the initial collection is what the first findOne
\* that ran has read.
RECURSIVE QuantityOf(_, _)
QuantityOf(items, item) ==
    IF items = <<>> THEN 0
    ELSE (IF Identity(Head(items)) = Identity(item) THEN Head(items).quantity ELSE 0)
         + QuantityOf(Tail(items), item)

CopiesOf(items, item) ==
    Cardinality({i \in DOMAIN items : Identity(items[i]) = Identity(item)})

\* Both calls are for one user, whose cart existed when they started, and
\* for one item identity; both read the cart before either saved.
SameItemRace ==
    /\ BothReturned
    /\ procs[1].user = procs[2].user
    /\ Identity(procs[1].item) = Identity(procs[2].item)
    /\ procs[1].id # 0
    /\ procs[2].id # 0
    /\ procs[1].existingCart = procs[2].existingCart

\* C20: after two interleaved addItemToCart calls for one user and one item
\* identity, the stored cart holds exactly one item of that identity, with
\* the previous quantity plus both added quantities.
C20_Original ==
    SameItemRace =>
        LET items == carts[procs[1].id].items
        IN  /\ CopiesOf(items, procs[1].item) = 1
            /\ QuantityOf(items, procs[1].item)
                  = QuantityOf(procs[1].existingCart.items, procs[1].item)
                    + procs[1].item.quantity + procs[2].item.quantity

---------------------------------------------------------------------------
\* VerifySpec: POST requests to the email-verification route

MaxRequests == 2
MaxTime == 2

AppError(message, statusCode) == [message |-> message, statusCode |-> statusCode]

\* The `token` of the request body; NoString stands for a body without one.
Tokens == {NoString, "", "T1", "T2"}

\* The fields of the stored user (IUser) the route reads and writes.
UserDocument(isVerified, verifyToken, verifyTokenExpiry) ==
    [t |-> "doc", isVerified |-> isVerified, verifyToken |-> verifyToken,
     verifyTokenExpiry |-> verifyTokenExpiry]

\* The user when the requests start: none, a user who was never sent a
\* token, a user with a pending token, and a user already verified here.
Accounts ==
    {Null,
     UserDocument(FALSE, NoString, Undefined),
     UserDocument(TRUE, "", Undefined)}
    \cup {UserDocument(FALSE, "T1", Number(expiry)) : expiry \in 1..MaxTime}

\* now < new Date(expiry).getTime(): the time of an undefined date is NaN,
\* and every comparison with NaN is false.
IsBefore(now, expiry) == expiry.t = "number" /\ now < expiry.n

\* user.verifyToken === token && Date.now() < new Date(...).getTime()
tokenIsValid(user, token, now) ==
    /\ user.verifyToken = token
    /\ IsBefore(now, user.verifyTokenExpiry)

\* A request that has been received and awaits connectToDatabase.
Received ==
    [pc |-> "connect", userData |-> Unset, token |-> NoString, user |-> Unset,
     response |-> Unset]

VerifyInit ==
    /\ pc = "verifying"
    /\ console = <<>>
    /\ rawOrder = Unset
    /\ storeId = NoString
    /\ result = Unset
    /\ rawOrders = <<>>
    /\ results = Unset
    /\ CartIdle
    /\ StoreIdle
    /\ account \in Accounts
    /\ clock = 0
    /\ reqs = [r \in 1..MaxRequests |-> Received]

\* Line 29: await connectToDatabase resolves.
Connect(r) ==
    /\ reqs[r].pc = "connect"
    /\ reqs' = [reqs EXCEPT ![r].pc = "getUserData"]
    /\ UNCHANGED <<pc, console, orderVars, cartVars, storeVars, account, clock>>

\* Lines 31-35: await getUserDataFromToken resolves to the session user or
\* to null; a request without a session is answered with the Unauthorized
\* error.
Authenticate(r) ==
    /\ reqs[r].pc = "getUserData"
    /\ \E userData \in {Null, SessionUser} :
          reqs' = [reqs EXCEPT ![r] =
                      IF ~Truthy(userData)
                      THEN [@ EXCEPT !.userData = userData,
                                     !.response = Throw(AppError("Unauthorized", 401)),
                                     !.pc = "done"]
                      ELSE [@ EXCEPT !.userData = userData,
                                     !.pc = "json"]]
    /\ UNCHANGED <<pc, console, orderVars, cartVars, storeVars, account, clock>>

\* Lines 36-37: await request.json() resolves and the token of the body is
\* taken.
ParseBody(r) ==
    /\ reqs[r].pc = "json"
    /\ \E token \in Tokens :
          reqs' = [reqs EXCEPT ![r].token = token, ![r].pc = "getUser"]
    /\ UNCHANGED <<pc, console, orderVars, cartVars, storeVars, account, clock>>

\* Lines 39-55: await getUserById resolves; a missing user and an invalid
\* or expired token are answered with an error, and otherwise the fields are
\* assigned on the document that was read.
LoadUser(r) ==
    /\ reqs[r].pc = "getUser"
    /\ reqs' = [reqs EXCEPT ![r] =
                  IF ~Truthy(account)
                  THEN [@ EXCEPT !.user = account,
                                 !.response = Throw(AppError("User not found", 404)),
                                 !.pc = "done"]
                  ELSE IF ~tokenIsValid(account, reqs[r].token, clock)
                  THEN [@ EXCEPT !.user = account,
                                 !.response =
                                     Throw(AppError("Invalid or expired token", 401)),
                                 !.pc = "done"]
                  ELSE [@ EXCEPT !.user = [account EXCEPT
                                              !.isVerified = TRUE,
                                              !.verifyToken = "",
                                              !.verifyTokenExpiry = Undefined],
                                 !.pc = "save"]]
    /\ UNCHANGED <<pc, console, orderVars, cartVars, storeVars, account, clock>>

\* Lines 56-58: await user.save() resolves: the assigned fields are written
\* to the stored document and the request is answered with 200.
SaveUser(r) ==
    /\ reqs[r].pc = "save"
    /\ account' = [account EXCEPT
                      !.isVerified = reqs[r].user.isVerified,
                      !.verifyToken = reqs[r].user.verifyToken,
                      !.verifyTokenExpiry = reqs[r].user.verifyTokenExpiry]
    /\ reqs' = [reqs EXCEPT
                  ![r].response = Ok([status |-> 200, message |-> "Successful"]),
                  ![r].pc = "done"]
    /\ UNCHANGED <<pc, console, orderVars, cartVars, storeVars, clock>>

\* Lines 59-61: an awaited call rejects and the error goes to handleApiError.
Rejected(r) ==
    /\ reqs[r].pc \in {"connect", "getUserData", "json", "getUser", "save"}
    /\ reqs' = [reqs EXCEPT
                  ![r].response = Throw([message |-> "rejected"]),
                  ![r].pc = "done"]
    /\ UNCHANGED <<pc, console, orderVars, cartVars, storeVars, account, clock>>

\* Time passes.
Tick ==
    /\ clock < MaxTime
    /\ clock' = clock + 1
    /\ UNCHANGED <<pc, console, orderVars, cartVars, storeVars, account, reqs>>

VerifyNext ==
    \/ \E r \in 1..MaxRequests :
          \/ Connect(r) \/ Authenticate(r) \/ ParseBody(r)
          \/ LoadUser(r) \/ SaveUser(r) \/ Rejected(r)
    \/ Tick

VerifySpec == VerifyInit /\ [][VerifyNext]_vars

---------------------------------------------------------------------------
\* Claims about the email-verification route (checked under VerifySpec)

\* The requests answered with 200.
Succeeded ==
    {r \in 1..MaxRequests : reqs[r].pc = "done" /\ reqs[r].response.ok}

\* C21: a verification token succeeds at most once: no two requests with
\* the same token are both answered with 200.
C21_Original ==
    \A r1, r2 \in Succeeded : reqs[r1].token = reqs[r2].token => r1 = r2

=============================================================================
